---- MODULE Spec2Model ----
(***************************************************************************)
(* Model of src/theme.rs of iced-modern-theme: the style resolver of the   *)
(* Modern theme.  Every style function is a pure function of the theme     *)
(* (light/dark flag and palette), the widget variant and the interaction   *)
(* status.  The host toolkit's paint cycle is the state machine: a widget   *)
(* is built with one style function, in each frame the host asks that       *)
(* function for a record with the widget's current status, and between      *)
(* frames the host may switch the theme.                                    *)
(*                                                                         *)
(* f32 values are fixed-point integers: Unit stands for 1.0, so 0.05 is 50, *)
(* 0.5 is 500, a border width of 1.5 is 1500.  Every literal of the source  *)
(* is a multiple of 0.01 and every alpha factor a multiple of 0.1, so the   *)
(* products the code forms are exact in this representation.                *)
(***************************************************************************)
EXTENDS Integers, Sequences, FiniteSets, TLC

VARIABLES widget, theme, req, style, memo

vars == <<widget, theme, req, style, memo>>

\* 1.0 in fixed point
Unit == 1000

\* palettes 0..MaxSeed are tried
MaxSeed == 2

Min(a, b) == IF a < b THEN a ELSE b

Max(a, b) == IF a > b THEN a ELSE b

----------------------------------------------------------------------------
(* iced::Color, Border, Shadow, Background *)

rgba(r, g, b, a) == [r |-> r, g |-> g, b |-> b, a |-> a]

from_rgb(r, g, b) == rgba(r, g, b, Unit)

WHITE == rgba(Unit, Unit, Unit, Unit)

BLACK == rgba(0, 0, 0, Unit)

TRANSPARENT == rgba(0, 0, 0, 0)

\* Color::scale_alpha: a * factor, the other channels kept
scale_alpha(color, factor) == [color EXCEPT !.a = (color.a * factor) \div Unit]

MkBorder(radius, width, color) == [radius |-> radius, width |-> width, color |-> color]

BorderDefault == MkBorder(0, 0, TRANSPARENT)

MkShadow(color, offset, blur_radius) ==
    [color |-> color, offset |-> offset, blur_radius |-> blur_radius]

ShadowDefault == MkShadow(TRANSPARENT, <<0, 0>>, 0)

BackgroundColor(color) == [kind |-> "Color", color |-> color]

None == [kind |-> "None"]

----------------------------------------------------------------------------
(* crate::colors and crate::styles: the palette and the corner radii *)

CORNER_RADIUS == 8000

SMALL_CORNER_RADIUS == 6000

TINY_CORNER_RADIUS == 4000

\* channel values a palette colour may take: both ends of the range, values
\* within one hover or pressed delta of an end, and values in the middle
ChannelLevels == <<0, 30, 480, 960, 1000, 200, 580, 920>>

AlphaLevels == <<1000, 1000, 600, 1000, 800>>

ChannelLevel(k) == ChannelLevels[(k % Len(ChannelLevels)) + 1]

AlphaLevel(k) == AlphaLevels[(k % Len(AlphaLevels)) + 1]

\* the colour of palette field number i in palette number seed
PaletteColor(seed, dark, i) ==
    LET d == IF dark THEN 3 ELSE 0
    IN  rgba(ChannelLevel(seed + i + d),
             ChannelLevel(2 * seed + 3 * i + 1 + d),
             ChannelLevel(3 * seed + 5 * i + 2 + d),
             AlphaLevel(seed + i))

is_dark_mode(t) == t.dark

get_theme_colors(t) ==
    [background |-> PaletteColor(t.seed, t.dark, 1),
     text |-> PaletteColor(t.seed, t.dark, 2),
     secondary_text |-> PaletteColor(t.seed, t.dark, 3),
     tertiary_text |-> PaletteColor(t.seed, t.dark, 4),
     placeholder |-> PaletteColor(t.seed, t.dark, 5),
     link |-> PaletteColor(t.seed, t.dark, 6),
     blue |-> PaletteColor(t.seed, t.dark, 7),
     green |-> PaletteColor(t.seed, t.dark, 8),
     red |-> PaletteColor(t.seed, t.dark, 9),
     orange |-> PaletteColor(t.seed, t.dark, 10),
     purple |-> PaletteColor(t.seed, t.dark, 11),
     teal |-> PaletteColor(t.seed, t.dark, 12),
     pink |-> PaletteColor(t.seed, t.dark, 13),
     indigo |-> PaletteColor(t.seed, t.dark, 14),
     input_bg |-> PaletteColor(t.seed, t.dark, 15),
     input_border |-> PaletteColor(t.seed, t.dark, 16),
     inactive_border |-> PaletteColor(t.seed, t.dark, 17),
     card_bg |-> PaletteColor(t.seed, t.dark, 18),
     system_bg |-> PaletteColor(t.seed, t.dark, 19),
     tertiary_background |-> PaletteColor(t.seed, t.dark, 20),
     selection |-> PaletteColor(t.seed, t.dark, 21),
     separator |-> PaletteColor(t.seed, t.dark, 22)]

\* the accent colours of the built theme's palette
MODERN_BLUE_LIGHT == from_rgb(0, 480, 1000)

MODERN_BLUE_DARK == from_rgb(40, 520, 1000)

MODERN_GREEN_LIGHT == from_rgb(200, 780, 350)

MODERN_GREEN_DARK == from_rgb(190, 820, 350)

MODERN_RED_LIGHT == from_rgb(1000, 230, 190)

MODERN_RED_DARK == from_rgb(1000, 270, 230)

MODERN_ORANGE_LIGHT == from_rgb(1000, 580, 0)

MODERN_ORANGE_DARK == from_rgb(1000, 620, 40)

\* colors::system: the system colours of the text styles
RED == from_rgb(1000, 230, 190)

RED_DARK == from_rgb(1000, 270, 230)

GREEN == from_rgb(200, 780, 350)

GREEN_DARK == from_rgb(190, 820, 350)

ORANGE == from_rgb(1000, 580, 0)

ORANGE_DARK == from_rgb(1000, 620, 40)

\* colors::gray: the backgrounds of the gray button
GRAY3_DARK == from_rgb(280, 280, 290)

GRAY4_LIGHT == from_rgb(820, 820, 840)

----------------------------------------------------------------------------
(* the closed enumerations *)

ButtonClasses ==
    {"Primary", "Secondary", "Success", "Warning", "Danger", "Link", "System", "Plain"}

ButtonStatuses == {"Active", "Hovered", "Pressed", "Disabled"}

ContainerClasses == {"Transparent", "Card", "Sheet", "Group", "Sidebar"}

TextInputStatuses == {"Active", "Hovered", "Focused", "Disabled"}

PickListStatuses == {"Active", "Hovered", "Opened"}

CheckboxStatuses == {"Active", "Hovered", "Disabled"}

RadioStatuses == {"Active", "Hovered"}

ValidationStates == {"Valid", "Warning", "Error"}

----------------------------------------------------------------------------
(* the complete theme: Theme::custom(name, Palette) *)

\* a theme builder with white text in both modes
create_modern_theme_white_text(dark_mode) ==
    LET name == IF dark_mode THEN "Modern Dark" ELSE "Modern Light"
        background == IF dark_mode THEN from_rgb(110, 110, 120) ELSE from_rgb(950, 950, 970)
        text == WHITE
        primary == IF dark_mode THEN MODERN_BLUE_DARK ELSE MODERN_BLUE_LIGHT
        success == IF dark_mode THEN MODERN_GREEN_DARK ELSE MODERN_GREEN_LIGHT
        danger == IF dark_mode THEN MODERN_RED_DARK ELSE MODERN_RED_LIGHT
        warning == IF dark_mode THEN MODERN_ORANGE_DARK ELSE MODERN_ORANGE_LIGHT
    IN  [name |-> name,
         palette |-> [background |-> background, text |-> text, primary |-> primary,
                      success |-> success, danger |-> danger, warning |-> warning]]

create_modern_theme(dark_mode) ==
    LET name == IF dark_mode THEN "Modern Dark" ELSE "Modern Light"
        background == IF dark_mode THEN from_rgb(110, 110, 120) ELSE from_rgb(950, 950, 970)
        text == IF dark_mode THEN WHITE ELSE BLACK
        primary == IF dark_mode THEN MODERN_BLUE_DARK ELSE MODERN_BLUE_LIGHT
        success == IF dark_mode THEN MODERN_GREEN_DARK ELSE MODERN_GREEN_LIGHT
        danger == IF dark_mode THEN MODERN_RED_DARK ELSE MODERN_RED_LIGHT
        warning == IF dark_mode THEN MODERN_ORANGE_DARK ELSE MODERN_ORANGE_LIGHT
    IN  [name |-> name,
         palette |-> [background |-> background, text |-> text, primary |-> primary,
                      success |-> success, danger |-> danger, warning |-> warning]]

\* Modern::theme
Modern_theme(dark_mode) == create_modern_theme(dark_mode)

light_theme == Modern_theme(FALSE)

dark_theme == Modern_theme(TRUE)

----------------------------------------------------------------------------
(* button transforms shared by the extra button styles *)

MkButtonStyle(background, text_color, border, shadow, snap) ==
    [background |-> background, text_color |-> text_color, border |-> border,
     shadow |-> shadow, snap |-> snap]

\* the hover shift without the clamp to [0, 1]
hover_adjust_color_unclamped(color, is_dark) ==
    IF is_dark
    THEN rgba(color.r + 50, color.g + 50, color.b + 50, color.a)
    ELSE rgba(color.r - 50, color.g - 50, color.b - 50, color.a)

hover_adjust_color(color, is_dark) ==
    IF is_dark
    THEN rgba(Min(color.r + 50, Unit), Min(color.g + 50, Unit),
              Min(color.b + 50, Unit), color.a)
    ELSE rgba(Max(color.r - 50, 0), Max(color.g - 50, 0),
              Max(color.b - 50, 0), color.a)

button_hover_style(base_style, is_dark) ==
    IF base_style.background.kind = "Color"
    THEN [base_style EXCEPT
            !.background = BackgroundColor(hover_adjust_color(base_style.background.color, is_dark))]
    ELSE base_style

pressed_adjust_color(color, is_dark) ==
    IF is_dark
    THEN rgba(Min(color.r + 100, Unit), Min(color.g + 100, Unit),
              Min(color.b + 100, Unit), color.a)
    ELSE rgba(Max(color.r - 100, 0), Max(color.g - 100, 0),
              Max(color.b - 100, 0), color.a)

button_pressed_style(base_style, is_dark) ==
    LET pressed_style == [base_style EXCEPT !.shadow = ShadowDefault]
    IN  IF base_style.background.kind = "Color"
        THEN [pressed_style EXCEPT
                !.background = BackgroundColor(pressed_adjust_color(base_style.background.color, is_dark))]
        ELSE pressed_style

button_disabled_style(base_style) ==
    MkButtonStyle(
        IF base_style.background.kind = "Color"
        THEN BackgroundColor(scale_alpha(base_style.background.color, 500))
        ELSE base_style.background,
        scale_alpha(base_style.text_color, 500),
        [base_style.border EXCEPT !.color = scale_alpha(base_style.border.color, 500)],
        ShadowDefault,
        TRUE)

----------------------------------------------------------------------------
(* button_style *)

modern_base(color, text_color) ==
    MkButtonStyle(BackgroundColor(color), text_color,
                  MkBorder(CORNER_RADIUS, 0, TRANSPARENT),
                  MkShadow(rgba(0, 0, 0, 100), <<0, Unit>>, 2 * Unit),
                  TRUE)

outlined(color, text_color) ==
    MkButtonStyle(BackgroundColor(TRANSPARENT), text_color,
                  MkBorder(CORNER_RADIUS, Unit, color),
                  ShadowDefault,
                  TRUE)

transparent(text_color) ==
    MkButtonStyle(BackgroundColor(TRANSPARENT), text_color,
                  BorderDefault, ShadowDefault, TRUE)

\* the base table with white text on the Warning button in both modes
button_base_style_white_warning(t, class) ==
    LET colors == get_theme_colors(t)
        is_dark == is_dark_mode(t)
    IN  CASE class = "Primary" -> modern_base(colors.blue, WHITE)
          [] class = "Secondary" -> outlined(colors.blue, colors.blue)
          [] class = "Success" -> modern_base(colors.green, WHITE)
          [] class = "Warning" -> modern_base(colors.orange, WHITE)
          [] class = "Danger" -> modern_base(colors.red, WHITE)
          [] class = "Link" -> transparent(colors.blue)
          [] class = "System" -> modern_base(colors.system_bg, colors.text)
          [] class = "Plain" -> transparent(colors.text)

button_base_style(t, class) ==
    LET colors == get_theme_colors(t)
        is_dark == is_dark_mode(t)
    IN  CASE class = "Primary" -> modern_base(colors.blue, WHITE)
          [] class = "Secondary" -> outlined(colors.blue, colors.blue)
          [] class = "Success" -> modern_base(colors.green, WHITE)
          [] class = "Warning" -> modern_base(colors.orange, IF is_dark THEN BLACK ELSE WHITE)
          [] class = "Danger" -> modern_base(colors.red, WHITE)
          [] class = "Link" -> transparent(colors.blue)
          [] class = "System" -> modern_base(colors.system_bg, colors.text)
          [] class = "Plain" -> transparent(colors.text)

button_style_hover_adjust_color(color, is_dark) ==
    IF is_dark
    THEN rgba(Min(color.r + 50, Unit), Min(color.g + 50, Unit),
              Min(color.b + 50, Unit), color.a)
    ELSE rgba(Max(color.r - 50, 0), Max(color.g - 50, 0),
              Max(color.b - 50, 0), color.a)

\* the Hovered arm without the case for the text-only variants
button_style_hovered_all_shift(base_style, class, is_dark) ==
    IF base_style.background.kind = "Color"
    THEN [base_style EXCEPT
            !.background = BackgroundColor(
                button_style_hover_adjust_color(base_style.background.color, is_dark))]
    ELSE base_style

button_style_hovered(base_style, class, is_dark) ==
    IF class \in {"Link", "Plain"}
    THEN [base_style EXCEPT !.text_color = scale_alpha(base_style.text_color, 800)]
    ELSE IF base_style.background.kind = "Color"
         THEN [base_style EXCEPT
                 !.background = BackgroundColor(
                     button_style_hover_adjust_color(base_style.background.color, is_dark))]
         ELSE base_style

button_style_pressed_adjust_color_unclamped(color, is_dark) ==
    IF is_dark
    THEN rgba(color.r + 100, color.g + 100, color.b + 100, color.a)
    ELSE rgba(color.r - 100, color.g - 100, color.b - 100, color.a)

button_style_pressed_adjust_color(color, is_dark) ==
    IF is_dark
    THEN rgba(Min(color.r + 100, Unit), Min(color.g + 100, Unit),
              Min(color.b + 100, Unit), color.a)
    ELSE rgba(Max(color.r - 100, 0), Max(color.g - 100, 0),
              Max(color.b - 100, 0), color.a)

\* the Pressed arm without the shadow removal
button_style_pressed_keeps_shadow(base_style, class, is_dark) ==
    LET pressed_style == base_style
    IN  IF class \in {"Link", "Plain"}
        THEN [pressed_style EXCEPT !.text_color = scale_alpha(base_style.text_color, 600)]
        ELSE IF base_style.background.kind = "Color"
             THEN [pressed_style EXCEPT
                     !.background = BackgroundColor(
                         button_style_pressed_adjust_color(base_style.background.color, is_dark))]
             ELSE pressed_style

button_style_pressed(base_style, class, is_dark) ==
    LET pressed_style == [base_style EXCEPT !.shadow = ShadowDefault]
    IN  IF class \in {"Link", "Plain"}
        THEN [pressed_style EXCEPT !.text_color = scale_alpha(base_style.text_color, 600)]
        ELSE IF base_style.background.kind = "Color"
             THEN [pressed_style EXCEPT
                     !.background = BackgroundColor(
                         button_style_pressed_adjust_color(base_style.background.color, is_dark))]
             ELSE pressed_style

button_style_disabled_opaque_text(base_style) ==
    MkButtonStyle(
        IF base_style.background.kind = "Color"
        THEN BackgroundColor(scale_alpha(base_style.background.color, 500))
        ELSE base_style.background,
        base_style.text_color,
        [base_style.border EXCEPT !.color = scale_alpha(base_style.border.color, 500)],
        ShadowDefault,
        TRUE)

button_style_disabled(base_style) ==
    MkButtonStyle(
        IF base_style.background.kind = "Color"
        THEN BackgroundColor(scale_alpha(base_style.background.color, 500))
        ELSE base_style.background,
        scale_alpha(base_style.text_color, 500),
        [base_style.border EXCEPT !.color = scale_alpha(base_style.border.color, 500)],
        ShadowDefault,
        TRUE)

\* a resolver that keeps the shadow of the record it returned last
button_style_sticky_shadow(t, class, status) ==
    LET is_dark == is_dark_mode(t)
        base_style == button_base_style(t, class)
        fresh == CASE status = "Active" -> base_style
                   [] status = "Hovered" -> button_style_hovered(base_style, class, is_dark)
                   [] status = "Pressed" -> button_style_pressed(base_style, class, is_dark)
                   [] status = "Disabled" -> button_style_disabled(base_style)
    IN  IF style = None THEN fresh ELSE [fresh EXCEPT !.shadow = style.shadow]

button_style(t, class, status) ==
    LET is_dark == is_dark_mode(t)
        base_style == button_base_style(t, class)
    IN  CASE status = "Active" -> base_style
          [] status = "Hovered" -> button_style_hovered(base_style, class, is_dark)
          [] status = "Pressed" -> button_style_pressed(base_style, class, is_dark)
          [] status = "Disabled" -> button_style_disabled(base_style)

\* Modern::button
button(class, t, status) == button_style(t, class, status)

\* Modern::selected_button_style applied to Modern::button(class)
selected_button_style(class, t, status) ==
    LET is_dark == is_dark_mode(t)
    IN  IF status = "Active"
        THEN button_pressed_style(button(class, t, "Active"), is_dark)
        ELSE button(class, t, status)


ButtonSizes == {"Small", "Medium", "Large"}

\* sized_button with the whole border rebuilt from the radius
sized_button_new_border(class, size, t, status) ==
    LET base_style == button(class, t, status)
        radius == CASE size = "Small" -> (CORNER_RADIUS * 800) \div Unit
                    [] size = "Medium" -> CORNER_RADIUS
                    [] size = "Large" -> (CORNER_RADIUS * 1200) \div Unit
    IN  [base_style EXCEPT !.border = MkBorder(radius, 0, TRANSPARENT)]

\* Modern::sized_button applied to Modern::button(class)
sized_button(class, size, t, status) ==
    LET base_style == button(class, t, status)
        radius == CASE size = "Small" -> (CORNER_RADIUS * 800) \div Unit
                    [] size = "Medium" -> CORNER_RADIUS
                    [] size = "Large" -> (CORNER_RADIUS * 1200) \div Unit
    IN  [base_style EXCEPT !.border = [base_style.border EXCEPT !.radius = radius]]

TintedButtonColors ==
    {"Blue", "Green", "Red", "Orange", "Purple", "Teal", "Pink", "Indigo"}

\* the modern_base closure of tinted_button, with the lighter shadow
tinted_modern_base(color, text_color) ==
    MkButtonStyle(BackgroundColor(color), text_color,
                  MkBorder(CORNER_RADIUS, 0, TRANSPARENT),
                  MkShadow(rgba(0, 0, 0, 50), <<0, Unit>>, 2 * Unit),
                  TRUE)

\* a tinted button that takes the white text colour of the variant table
tinted_button_white_text(color_variant, t, status) ==
    LET colors == get_theme_colors(t)
        is_dark == is_dark_mode(t)
        base_color == CASE color_variant = "Blue" -> colors.blue
                        [] color_variant = "Green" -> colors.green
                        [] color_variant = "Red" -> colors.red
                        [] color_variant = "Orange" -> colors.orange
                        [] color_variant = "Purple" -> colors.purple
                        [] color_variant = "Teal" -> colors.teal
                        [] color_variant = "Pink" -> colors.pink
                        [] color_variant = "Indigo" -> colors.indigo
        tinted_color == rgba(base_color.r, base_color.g, base_color.b, 200)
        base_style == tinted_modern_base(tinted_color, WHITE)
    IN  CASE status = "Active" -> base_style
          [] status = "Hovered" -> button_hover_style(base_style, is_dark)
          [] status = "Pressed" -> button_pressed_style(base_style, is_dark)
          [] status = "Disabled" -> button_disabled_style(base_style)

\* Modern::tinted_button
tinted_button(color_variant, t, status) ==
    LET colors == get_theme_colors(t)
        is_dark == is_dark_mode(t)
        base_color == CASE color_variant = "Blue" -> colors.blue
                        [] color_variant = "Green" -> colors.green
                        [] color_variant = "Red" -> colors.red
                        [] color_variant = "Orange" -> colors.orange
                        [] color_variant = "Purple" -> colors.purple
                        [] color_variant = "Teal" -> colors.teal
                        [] color_variant = "Pink" -> colors.pink
                        [] color_variant = "Indigo" -> colors.indigo
        tinted_color == rgba(base_color.r, base_color.g, base_color.b, 200)
        base_style == tinted_modern_base(tinted_color, base_color)
    IN  CASE status = "Active" -> base_style
          [] status = "Hovered" -> button_hover_style(base_style, is_dark)
          [] status = "Pressed" -> button_pressed_style(base_style, is_dark)
          [] status = "Disabled" -> button_disabled_style(base_style)

\* the modern_base closure of the colour-named buttons
color_button_modern_base(color, text_color) ==
    MkButtonStyle(BackgroundColor(color), text_color,
                  MkBorder(CORNER_RADIUS, 0, TRANSPARENT),
                  MkShadow(rgba(0, 0, 0, 100), <<0, Unit>>, 2 * Unit),
                  TRUE)

\* Modern::teal_button
teal_button(t, status) ==
    LET colors == get_theme_colors(t)
        is_dark == is_dark_mode(t)
        base_style == color_button_modern_base(colors.teal, WHITE)
    IN  CASE status = "Active" -> base_style
          [] status = "Hovered" -> button_hover_style(base_style, is_dark)
          [] status = "Pressed" -> button_pressed_style(base_style, is_dark)
          [] status = "Disabled" -> button_disabled_style(base_style)

\* Modern::indigo_button
indigo_button(t, status) ==
    LET colors == get_theme_colors(t)
        is_dark == is_dark_mode(t)
        base_style == color_button_modern_base(colors.indigo, WHITE)
    IN  CASE status = "Active" -> base_style
          [] status = "Hovered" -> button_hover_style(base_style, is_dark)
          [] status = "Pressed" -> button_pressed_style(base_style, is_dark)
          [] status = "Disabled" -> button_disabled_style(base_style)

\* Modern::purple_button
purple_button(t, status) ==
    LET colors == get_theme_colors(t)
        is_dark == is_dark_mode(t)
        base_style == color_button_modern_base(colors.purple, WHITE)
    IN  CASE status = "Active" -> base_style
          [] status = "Hovered" -> button_hover_style(base_style, is_dark)
          [] status = "Pressed" -> button_pressed_style(base_style, is_dark)
          [] status = "Disabled" -> button_disabled_style(base_style)

\* Modern::pink_button
pink_button(t, status) ==
    LET colors == get_theme_colors(t)
        is_dark == is_dark_mode(t)
        base_style == color_button_modern_base(colors.pink, WHITE)
    IN  CASE status = "Active" -> base_style
          [] status = "Hovered" -> button_hover_style(base_style, is_dark)
          [] status = "Pressed" -> button_pressed_style(base_style, is_dark)
          [] status = "Disabled" -> button_disabled_style(base_style)

\* Modern::gray_button
gray_button(t, status) ==
    LET colors == get_theme_colors(t)
        is_dark == is_dark_mode(t)
        gray_color == IF is_dark THEN GRAY3_DARK ELSE GRAY4_LIGHT
        base_style == color_button_modern_base(gray_color, colors.text)
    IN  CASE status = "Active" -> base_style
          [] status = "Hovered" -> button_hover_style(base_style, is_dark)
          [] status = "Pressed" -> button_pressed_style(base_style, is_dark)
          [] status = "Disabled" -> button_disabled_style(base_style)

\* Modern::sized_button applied to Modern::selected_button_style(Modern::button(class))
sized_selected_button(class, size, t, status) ==
    LET base_style == selected_button_style(class, t, status)
        radius == CASE size = "Small" -> (CORNER_RADIUS * 800) \div Unit
                    [] size = "Medium" -> CORNER_RADIUS
                    [] size = "Large" -> (CORNER_RADIUS * 1200) \div Unit
    IN  [base_style EXCEPT !.border = [base_style.border EXCEPT !.radius = radius]]

----------------------------------------------------------------------------
(* container styles *)

MkContainerStyle(text_color, background, border, shadow, snap) ==
    [text_color |-> text_color, background |-> background, border |-> border,
     shadow |-> shadow, snap |-> snap]

\* the Group variant without its dark-mode colour
container_style_one_group_bg(t, class) ==
    LET colors == get_theme_colors(t)
    IN  CASE class = "Transparent" ->
               MkContainerStyle(colors.text, None, BorderDefault, ShadowDefault, TRUE)
          [] class = "Card" ->
               MkContainerStyle(colors.text, BackgroundColor(colors.card_bg),
                                MkBorder(10 * Unit, 0, TRANSPARENT),
                                MkShadow(rgba(0, 0, 0, 100), <<0, 2 * Unit>>, 8 * Unit),
                                TRUE)
          [] class = "Sheet" ->
               LET sheet_bg == IF is_dark_mode(t)
                               THEN from_rgb(220, 220, 230)
                               ELSE from_rgb(950, 950, 970)
               IN  MkContainerStyle(colors.text, BackgroundColor(sheet_bg),
                                    MkBorder(12 * Unit, 0, TRANSPARENT),
                                    MkShadow(rgba(0, 0, 0, 200), <<0, 4 * Unit>>, 16 * Unit),
                                    TRUE)
          [] class = "Group" ->
               MkContainerStyle(colors.text, BackgroundColor(from_rgb(950, 950, 970)),
                                MkBorder(10 * Unit, 0, TRANSPARENT),
                                ShadowDefault,
                                TRUE)
          [] class = "Sidebar" ->
               LET sidebar_bg == IF is_dark_mode(t)
                                 THEN from_rgb(150, 150, 160)
                                 ELSE from_rgb(920, 920, 930)
               IN  MkContainerStyle(colors.text, BackgroundColor(sidebar_bg),
                                    BorderDefault,
                                    MkShadow(rgba(0, 0, 0, 50), <<Unit, 0>>, 3 * Unit),
                                    TRUE)

container_style(t, class) ==
    LET colors == get_theme_colors(t)
    IN  CASE class = "Transparent" ->
               MkContainerStyle(colors.text, None, BorderDefault, ShadowDefault, TRUE)
          [] class = "Card" ->
               MkContainerStyle(colors.text, BackgroundColor(colors.card_bg),
                                MkBorder(10 * Unit, 0, TRANSPARENT),
                                MkShadow(rgba(0, 0, 0, 100), <<0, 2 * Unit>>, 8 * Unit),
                                TRUE)
          [] class = "Sheet" ->
               LET sheet_bg == IF is_dark_mode(t)
                               THEN from_rgb(220, 220, 230)
                               ELSE from_rgb(950, 950, 970)
               IN  MkContainerStyle(colors.text, BackgroundColor(sheet_bg),
                                    MkBorder(12 * Unit, 0, TRANSPARENT),
                                    MkShadow(rgba(0, 0, 0, 200), <<0, 4 * Unit>>, 16 * Unit),
                                    TRUE)
          [] class = "Group" ->
               LET group_bg == IF is_dark_mode(t)
                               THEN from_rgb(170, 170, 180)
                               ELSE from_rgb(950, 950, 970)
               IN  MkContainerStyle(colors.text, BackgroundColor(group_bg),
                                    MkBorder(10 * Unit, 0, TRANSPARENT),
                                    ShadowDefault,
                                    TRUE)
          [] class = "Sidebar" ->
               LET sidebar_bg == IF is_dark_mode(t)
                                 THEN from_rgb(150, 150, 160)
                                 ELSE from_rgb(920, 920, 930)
               IN  MkContainerStyle(colors.text, BackgroundColor(sidebar_bg),
                                    BorderDefault,
                                    MkShadow(rgba(0, 0, 0, 50), <<Unit, 0>>, 3 * Unit),
                                    TRUE)

\* Modern::container
container(class, t) == container_style(t, class)

card_container(t) == container("Card", t)

danger_tooltip_container(t) ==
    LET dark_mode == is_dark_mode(t)
    IN  MkContainerStyle(
            IF dark_mode THEN from_rgb(1000, 600, 600) ELSE from_rgb(700, 0, 0),
            BackgroundColor(IF dark_mode THEN rgba(400, 100, 100, 1000)
                                         ELSE rgba(1000, 920, 920, 1000)),
            MkBorder(6 * Unit, Unit,
                     IF dark_mode THEN from_rgb(800, 300, 300) ELSE from_rgb(900, 600, 600)),
            MkShadow(rgba(0, 0, 0, 150), <<0, Unit>>, 3 * Unit),
            TRUE)

warning_tooltip_container(t) ==
    LET colors == get_theme_colors(t)
    IN  MkContainerStyle(
            colors.orange,
            BackgroundColor(IF is_dark_mode(t) THEN rgba(300, 150, 0, 700)
                                               ELSE rgba(1000, 960, 900, 1000)),
            MkBorder(6 * Unit, Unit, colors.orange),
            MkShadow(rgba(0, 0, 0, 100), <<0, Unit>>, 2 * Unit),
            TRUE)

\* the Warning arm calling the danger style
conditional_tooltip_container_warning_as_danger(validation_state, t) ==
    CASE validation_state = "Error" -> danger_tooltip_container(t)
      [] validation_state = "Warning" -> danger_tooltip_container(t)
      [] validation_state = "Valid" -> card_container(t)

conditional_tooltip_container(validation_state, t) ==
    CASE validation_state = "Error" -> danger_tooltip_container(t)
      [] validation_state = "Warning" -> warning_tooltip_container(t)
      [] validation_state = "Valid" -> card_container(t)

----------------------------------------------------------------------------
(* text input, pick list and combo box styles *)

MkTextInputStyle(background, border, icon, placeholder, value, selection) ==
    [background |-> background, border |-> border, icon |-> icon,
     placeholder |-> placeholder, value |-> value, selection |-> selection]

\* the Disabled arm with the background alpha halved
text_input_style_half_bg(t, status) ==
    LET colors == get_theme_colors(t)
        base_style == MkTextInputStyle(BackgroundColor(colors.input_bg),
                                       MkBorder(SMALL_CORNER_RADIUS, Unit, colors.input_border),
                                       colors.text, colors.placeholder, colors.text,
                                       scale_alpha(colors.blue, 300))
    IN  CASE status = "Active" -> base_style
          [] status = "Hovered" ->
               [base_style EXCEPT !.border.color = colors.placeholder]
          [] status = "Focused" ->
               [base_style EXCEPT !.border.color = colors.blue, !.border.width = 2 * Unit]
          [] status = "Disabled" ->
               [base_style EXCEPT
                  !.background = BackgroundColor(scale_alpha(colors.input_bg, 500)),
                  !.border.color = scale_alpha(colors.input_border, 500),
                  !.value = scale_alpha(colors.text, 500)]

text_input_style(t, status) ==
    LET colors == get_theme_colors(t)
        base_style == MkTextInputStyle(BackgroundColor(colors.input_bg),
                                       MkBorder(SMALL_CORNER_RADIUS, Unit, colors.input_border),
                                       colors.text, colors.placeholder, colors.text,
                                       scale_alpha(colors.blue, 300))
    IN  CASE status = "Active" -> base_style
          [] status = "Hovered" ->
               [base_style EXCEPT !.border.color = colors.placeholder]
          [] status = "Focused" ->
               [base_style EXCEPT !.border.color = colors.blue, !.border.width = 2 * Unit]
          [] status = "Disabled" ->
               [base_style EXCEPT
                  !.background = BackgroundColor(scale_alpha(colors.input_bg, 700)),
                  !.border.color = scale_alpha(colors.input_border, 500),
                  !.value = scale_alpha(colors.text, 500)]

MkPickListStyle(text_color, placeholder_color, background, border, handle_color) ==
    [text_color |-> text_color, placeholder_color |-> placeholder_color,
     background |-> background, border |-> border, handle_color |-> handle_color]

\* the Opened arm without the handle colour
pick_list_style_plain_handle(t, status) ==
    LET colors == get_theme_colors(t)
        base_style == MkPickListStyle(colors.text, colors.placeholder,
                                      BackgroundColor(colors.input_bg),
                                      MkBorder(SMALL_CORNER_RADIUS, Unit, colors.input_border),
                                      colors.placeholder)
    IN  CASE status = "Active" -> base_style
          [] status = "Hovered" ->
               [base_style EXCEPT !.border.color = colors.placeholder]
          [] status = "Opened" ->
               [base_style EXCEPT !.border.color = colors.blue,
                                  !.border.width = (3 * Unit) \div 2]

pick_list_style(t, status) ==
    LET colors == get_theme_colors(t)
        base_style == MkPickListStyle(colors.text, colors.placeholder,
                                      BackgroundColor(colors.input_bg),
                                      MkBorder(SMALL_CORNER_RADIUS, Unit, colors.input_border),
                                      colors.placeholder)
    IN  CASE status = "Active" -> base_style
          [] status = "Hovered" ->
               [base_style EXCEPT !.border.color = colors.placeholder]
          [] status = "Opened" ->
               [base_style EXCEPT !.border.color = colors.blue,
                                  !.border.width = (3 * Unit) \div 2,
                                  !.handle_color = colors.blue]

combo_box_style(t, status) == text_input_style(t, status)

search_input(t, status) ==
    LET colors == get_theme_colors(t)
        base_style == MkTextInputStyle(BackgroundColor(colors.system_bg),
                                       MkBorder(CORNER_RADIUS, 0, TRANSPARENT),
                                       colors.tertiary_text, colors.placeholder, colors.text,
                                       colors.selection)
    IN  CASE status = "Active" -> base_style
          [] status = "Hovered" -> base_style
          [] status = "Focused" ->
               [base_style EXCEPT !.background = BackgroundColor(colors.tertiary_background)]
          [] status = "Disabled" ->
               [base_style EXCEPT
                  !.background = BackgroundColor(scale_alpha(colors.system_bg, 700)),
                  !.value = scale_alpha(colors.text, 500)]

inline_text_input(t, status) ==
    LET colors == get_theme_colors(t)
        base_style == MkTextInputStyle(BackgroundColor(TRANSPARENT),
                                       MkBorder(0, Unit, colors.separator),
                                       colors.text, colors.placeholder, colors.text,
                                       colors.selection)
    IN  CASE status = "Active" -> base_style
          [] status = "Hovered" ->
               [base_style EXCEPT !.border.color = colors.tertiary_text]
          [] status = "Focused" ->
               [base_style EXCEPT !.border.color = colors.blue, !.border.width = 2 * Unit]
          [] status = "Disabled" ->
               [base_style EXCEPT
                  !.border.color = scale_alpha(colors.separator, 500),
                  !.value = scale_alpha(colors.text, 500)]

danger_text_input(t, status) ==
    LET colors == get_theme_colors(t)
        base_style == text_input_style(t, status)
    IN  [base_style EXCEPT
           !.border.color = colors.red,
           !.border.width = Unit,
           !.background = BackgroundColor(IF is_dark_mode(t)
                                          THEN rgba(300, 0, 0, 200)
                                          ELSE rgba(1000, 900, 900, 1000))]

warning_text_input(t, status) ==
    LET colors == get_theme_colors(t)
        base_style == text_input_style(t, status)
    IN  [base_style EXCEPT !.border.color = colors.orange, !.border.width = Unit]

\* the Valid arm calling the standard text input style
conditional_text_input_valid_as_standard(validation_state, t, status) ==
    CASE validation_state = "Error" -> danger_text_input(t, status)
      [] validation_state = "Warning" -> warning_text_input(t, status)
      [] validation_state = "Valid" -> text_input_style(t, status)

conditional_text_input(validation_state, t, status) ==
    CASE validation_state = "Error" -> danger_text_input(t, status)
      [] validation_state = "Warning" -> warning_text_input(t, status)
      [] validation_state = "Valid" -> inline_text_input(t, status)

\* Modern::text_input
text_input(t, status) == text_input_style(t, status)

\* a combo box styled as a search input
combo_box_as_search_input(t, status) == search_input(t, status)

\* Modern::combo_box
combo_box(t, status) == text_input_style(t, status)

----------------------------------------------------------------------------
(* text styles *)

MkTextStyle(color) == [color |-> color]

\* colours passed to colored_text
TextColorArgs == {BLACK, WHITE, rgba(500, 0, 500, 800)}

\* colored_text with the two colours exchanged
colored_text_exchanged(light_color, dark_color, t) ==
    LET is_dark == is_dark_mode(t)
        color == IF is_dark THEN light_color ELSE dark_color
    IN  MkTextStyle(color)

colored_text(light_color, dark_color, t) ==
    LET is_dark == is_dark_mode(t)
        color == IF is_dark THEN dark_color ELSE light_color
    IN  MkTextStyle(color)

red_text(t) == colored_text(RED, RED_DARK, t)

green_text(t) == colored_text(GREEN, GREEN_DARK, t)

orange_text(t) == colored_text(ORANGE, ORANGE_DARK, t)

success_text(t) == green_text(t)

warning_text(t) == orange_text(t)

error_text(t) == red_text(t)

validated_text(has_error, t) ==
    IF has_error THEN error_text(t) ELSE success_text(t)

----------------------------------------------------------------------------
(* the conditional helpers; a style function argument is named by a tag *)

\* button style functions passed as arguments: Modern::button(class)
ButtonStyleArgs == {"Primary", "Link"}

TextInputStyleArgs == {"text_input", "search_input"}

\* container style functions passed as arguments: Modern::container(class)
ContainerStyleArgs == {"Card", "Transparent"}

\* the call style_fn(theme, status) of a text input style function
CallTextInputStyle(style_fn, t, status) ==
    CASE style_fn = "text_input" -> text_input(t, status)
      [] style_fn = "search_input" -> search_input(t, status)

\* the helper with its two branches exchanged
conditional_button_style_swapped(condition, true_style, false_style, t, status) ==
    IF condition
    THEN button(false_style, t, status)
    ELSE button(true_style, t, status)

conditional_button_style(condition, true_style, false_style, t, status) ==
    IF condition
    THEN button(true_style, t, status)
    ELSE button(false_style, t, status)

conditional_text_input_style(condition, true_style, false_style, t, status) ==
    IF condition
    THEN CallTextInputStyle(true_style, t, status)
    ELSE CallTextInputStyle(false_style, t, status)

conditional_container_style(condition, true_style, false_style, t) ==
    IF condition
    THEN container(true_style, t)
    ELSE container(false_style, t)

----------------------------------------------------------------------------
(* radio and checkbox styles; a status is a record [name, flag] *)

radio_style(t, status) ==
    LET colors == get_theme_colors(t)
        st == [background |-> BackgroundColor(TRANSPARENT),
               dot_color |-> colors.blue,
               border_width |-> 2 * Unit,
               border_color |->
                   CASE status.name = "Active" /\ status.is_selected -> colors.blue
                     [] status.name = "Hovered" /\ status.is_selected -> colors.blue
                     [] OTHER -> colors.inactive_border,
               text_color |-> colors.text]
    IN  IF status.name = "Hovered" /\ ~status.is_selected
        THEN [st EXCEPT !.border_color = scale_alpha(colors.blue, 500)]
        ELSE st

MkCheckboxStyle(background, icon_color, border, text_color) ==
    [background |-> background, icon_color |-> icon_color, border |-> border,
     text_color |-> text_color]

\* a resolver whose Disabled arm is missing and ends in a panic
checkbox_style_no_disabled(t, status) ==
    LET colors == get_theme_colors(t)
    IN  CASE status.name = "Active" ->
               IF status.is_checked
               THEN MkCheckboxStyle(BackgroundColor(colors.blue), WHITE,
                                    MkBorder(TINY_CORNER_RADIUS, 0, TRANSPARENT),
                                    colors.text)
               ELSE MkCheckboxStyle(BackgroundColor(TRANSPARENT), TRANSPARENT,
                                    MkBorder(TINY_CORNER_RADIUS, 2 * Unit, colors.inactive_border),
                                    colors.text)
          [] status.name = "Hovered" ->
               IF status.is_checked
               THEN MkCheckboxStyle(BackgroundColor(scale_alpha(colors.blue, 900)), WHITE,
                                    MkBorder(TINY_CORNER_RADIUS, 0, TRANSPARENT),
                                    colors.text)
               ELSE MkCheckboxStyle(BackgroundColor(TRANSPARENT), TRANSPARENT,
                                    MkBorder(TINY_CORNER_RADIUS, 2 * Unit,
                                             scale_alpha(colors.blue, 500)),
                                    colors.text)
          [] OTHER -> [panic |-> "not implemented"]

\* the Disabled checked arm with the icon left opaque
checkbox_style_opaque_disabled_icon(t, status) ==
    LET colors == get_theme_colors(t)
    IN  CASE status.name = "Active" ->
               IF status.is_checked
               THEN MkCheckboxStyle(BackgroundColor(colors.blue), WHITE,
                                    MkBorder(TINY_CORNER_RADIUS, 0, TRANSPARENT),
                                    colors.text)
               ELSE MkCheckboxStyle(BackgroundColor(TRANSPARENT), TRANSPARENT,
                                    MkBorder(TINY_CORNER_RADIUS, 2 * Unit, colors.inactive_border),
                                    colors.text)
          [] status.name = "Hovered" ->
               IF status.is_checked
               THEN MkCheckboxStyle(BackgroundColor(scale_alpha(colors.blue, 900)), WHITE,
                                    MkBorder(TINY_CORNER_RADIUS, 0, TRANSPARENT),
                                    colors.text)
               ELSE MkCheckboxStyle(BackgroundColor(TRANSPARENT), TRANSPARENT,
                                    MkBorder(TINY_CORNER_RADIUS, 2 * Unit,
                                             scale_alpha(colors.blue, 500)),
                                    colors.text)
          [] status.name = "Disabled" ->
               IF status.is_checked
               THEN MkCheckboxStyle(BackgroundColor(scale_alpha(colors.blue, 500)),
                                    WHITE,
                                    MkBorder(TINY_CORNER_RADIUS, 0, TRANSPARENT),
                                    scale_alpha(colors.text, 500))
               ELSE MkCheckboxStyle(BackgroundColor(TRANSPARENT), TRANSPARENT,
                                    MkBorder(TINY_CORNER_RADIUS, 2 * Unit,
                                             scale_alpha(colors.inactive_border, 500)),
                                    scale_alpha(colors.text, 500))

checkbox_style(t, status) ==
    LET colors == get_theme_colors(t)
    IN  CASE status.name = "Active" ->
               IF status.is_checked
               THEN MkCheckboxStyle(BackgroundColor(colors.blue), WHITE,
                                    MkBorder(TINY_CORNER_RADIUS, 0, TRANSPARENT),
                                    colors.text)
               ELSE MkCheckboxStyle(BackgroundColor(TRANSPARENT), TRANSPARENT,
                                    MkBorder(TINY_CORNER_RADIUS, 2 * Unit, colors.inactive_border),
                                    colors.text)
          [] status.name = "Hovered" ->
               IF status.is_checked
               THEN MkCheckboxStyle(BackgroundColor(scale_alpha(colors.blue, 900)), WHITE,
                                    MkBorder(TINY_CORNER_RADIUS, 0, TRANSPARENT),
                                    colors.text)
               ELSE MkCheckboxStyle(BackgroundColor(TRANSPARENT), TRANSPARENT,
                                    MkBorder(TINY_CORNER_RADIUS, 2 * Unit,
                                             scale_alpha(colors.blue, 500)),
                                    colors.text)
          [] status.name = "Disabled" ->
               IF status.is_checked
               THEN MkCheckboxStyle(BackgroundColor(scale_alpha(colors.blue, 500)),
                                    scale_alpha(WHITE, 500),
                                    MkBorder(TINY_CORNER_RADIUS, 0, TRANSPARENT),
                                    scale_alpha(colors.text, 500))
               ELSE MkCheckboxStyle(BackgroundColor(TRANSPARENT), TRANSPARENT,
                                    MkBorder(TINY_CORNER_RADIUS, 2 * Unit,
                                             scale_alpha(colors.inactive_border, 500)),
                                    scale_alpha(colors.text, 500))

----------------------------------------------------------------------------
(* the host's paint cycle *)

NoStatus == "-"

NoClass == "-"

WidgetOf(kind, class) == [kind |-> kind, class |-> class]

ConditionalWidgets(kind, args) ==
    {[kind |-> kind, condition |-> b, true_style |-> f, false_style |-> g] :
        b \in BOOLEAN, f \in args, g \in args}

Widgets ==
    {WidgetOf(k, c) : k \in {"button", "selected_button"}, c \in ButtonClasses}
    \cup {WidgetOf("container", c) : c \in ContainerClasses}
    \cup {WidgetOf(k, c) : k \in {"conditional_tooltip_container", "conditional_text_input"},
                           c \in ValidationStates}
    \cup {WidgetOf(k, NoClass) :
            k \in {"text_input", "combo_box", "search_input", "inline_text_input",
                   "danger_text_input", "warning_text_input", "pick_list",
                   "checkbox", "radio"}}
    \cup {[kind |-> "sized_button", class |-> c, size |-> s] :
            c \in ButtonClasses, s \in ButtonSizes}
    \cup {WidgetOf(k, NoClass) : k \in {"theme", "light_theme", "dark_theme"}}
    \cup {WidgetOf("tinted_button", c) : c \in TintedButtonColors}
    \cup ConditionalWidgets("conditional_button_style", ButtonStyleArgs)
    \cup ConditionalWidgets("conditional_text_input_style", TextInputStyleArgs)
    \cup ConditionalWidgets("conditional_container_style", ContainerStyleArgs)
    \cup {[kind |-> "colored_text", light_color |-> l, dark_color |-> d] :
            l \in TextColorArgs, d \in TextColorArgs}
    \cup {WidgetOf("validated_text", has_error) : has_error \in BOOLEAN}
    \cup {WidgetOf(k, NoClass) :
            k \in {"red_text", "green_text", "orange_text", "success_text",
                   "warning_text", "error_text"}}
    \cup {WidgetOf(k, NoClass) : k \in {"teal_button", "indigo_button", "purple_button", "pink_button", "gray_button"}}
    \cup {[kind |-> "sized_selected_button", class |-> c, size |-> s] : c \in ButtonClasses, s \in ButtonSizes}

NoReq == [kind |-> "none"]

Init ==
    /\ widget \in Widgets
    /\ theme \in [dark : BOOLEAN, seed : 0..MaxSeed]
    /\ req = NoReq
    /\ style = None
    /\ memo = NoReq

\* the observer takes the new frame, or keeps the frame it has and notes
\* whether a frame with other inputs has been painted since
Observe(r, s) ==
    \/ memo' = [req |-> r, style |-> s, later |-> FALSE]
    \/ /\ memo # NoReq
       /\ memo' = [memo EXCEPT !.later = @ \/ (r # memo.req)]
    \/ /\ memo = NoReq
       /\ memo' = memo

Frame(status, s) ==
    LET r == [theme |-> theme, status |-> status]
    IN  /\ req' = r
        /\ style' = s
        /\ Observe(r, s)
        /\ UNCHANGED <<widget, theme>>

ResolveButton ==
    /\ widget.kind = "button"
    /\ \E status \in ButtonStatuses :
          Frame(status, button(widget.class, theme, status))

ResolveSelectedButton ==
    /\ widget.kind = "selected_button"
    /\ \E status \in ButtonStatuses :
          Frame(status, selected_button_style(widget.class, theme, status))

ResolveContainer ==
    /\ widget.kind = "container"
    /\ Frame(NoStatus, container(widget.class, theme))

ResolveConditionalTooltipContainer ==
    /\ widget.kind = "conditional_tooltip_container"
    /\ Frame(NoStatus, conditional_tooltip_container(widget.class, theme))

ResolveTextInput ==
    /\ widget.kind = "text_input"
    /\ \E status \in TextInputStatuses :
          Frame(status, text_input(theme, status))

ResolveComboBox ==
    /\ widget.kind = "combo_box"
    /\ \E status \in TextInputStatuses :
          Frame(status, combo_box(theme, status))

ResolveSearchInput ==
    /\ widget.kind = "search_input"
    /\ \E status \in TextInputStatuses :
          Frame(status, search_input(theme, status))

ResolveInlineTextInput ==
    /\ widget.kind = "inline_text_input"
    /\ \E status \in TextInputStatuses :
          Frame(status, inline_text_input(theme, status))

ResolveDangerTextInput ==
    /\ widget.kind = "danger_text_input"
    /\ \E status \in TextInputStatuses :
          Frame(status, danger_text_input(theme, status))

ResolveWarningTextInput ==
    /\ widget.kind = "warning_text_input"
    /\ \E status \in TextInputStatuses :
          Frame(status, warning_text_input(theme, status))

ResolveConditionalTextInput ==
    /\ widget.kind = "conditional_text_input"
    /\ \E status \in TextInputStatuses :
          Frame(status, conditional_text_input(widget.class, theme, status))

ResolvePickList ==
    /\ widget.kind = "pick_list"
    /\ \E status \in PickListStatuses :
          Frame(status, pick_list_style(theme, status))

ResolveCheckbox ==
    /\ widget.kind = "checkbox"
    /\ \E name \in CheckboxStatuses, is_checked \in BOOLEAN :
          LET status == [name |-> name, is_checked |-> is_checked]
          IN  Frame(status, checkbox_style(theme, status))

ResolveRadio ==
    /\ widget.kind = "radio"
    /\ \E name \in RadioStatuses, is_selected \in BOOLEAN :
          LET status == [name |-> name, is_selected |-> is_selected]
          IN  Frame(status, radio_style(theme, status))

ResolveSizedButton ==
    /\ widget.kind = "sized_button"
    /\ \E status \in ButtonStatuses :
          Frame(status, sized_button(widget.class, widget.size, theme, status))

BuildTheme ==
    /\ widget.kind = "theme"
    /\ \E dark_mode \in BOOLEAN :
          Frame(dark_mode, Modern_theme(dark_mode))

BuildLightTheme ==
    /\ widget.kind = "light_theme"
    /\ Frame(NoStatus, light_theme)

BuildDarkTheme ==
    /\ widget.kind = "dark_theme"
    /\ Frame(NoStatus, dark_theme)

ResolveTintedButton ==
    /\ widget.kind = "tinted_button"
    /\ \E status \in ButtonStatuses :
          Frame(status, tinted_button(widget.class, theme, status))

ResolveConditionalButtonStyle ==
    /\ widget.kind = "conditional_button_style"
    /\ \E status \in ButtonStatuses :
          Frame(status, conditional_button_style(widget.condition, widget.true_style,
                                                 widget.false_style, theme, status))

ResolveConditionalTextInputStyle ==
    /\ widget.kind = "conditional_text_input_style"
    /\ \E status \in TextInputStatuses :
          Frame(status, conditional_text_input_style(widget.condition, widget.true_style,
                                                     widget.false_style, theme, status))

ResolveConditionalContainerStyle ==
    /\ widget.kind = "conditional_container_style"
    /\ Frame(NoStatus, conditional_container_style(widget.condition, widget.true_style,
                                                   widget.false_style, theme))

ResolveColoredText ==
    /\ widget.kind = "colored_text"
    /\ Frame(NoStatus, colored_text(widget.light_color, widget.dark_color, theme))

ResolveRedText ==
    /\ widget.kind = "red_text"
    /\ Frame(NoStatus, red_text(theme))

ResolveGreenText ==
    /\ widget.kind = "green_text"
    /\ Frame(NoStatus, green_text(theme))

ResolveOrangeText ==
    /\ widget.kind = "orange_text"
    /\ Frame(NoStatus, orange_text(theme))

ResolveSuccessText ==
    /\ widget.kind = "success_text"
    /\ Frame(NoStatus, success_text(theme))

ResolveWarningText ==
    /\ widget.kind = "warning_text"
    /\ Frame(NoStatus, warning_text(theme))

ResolveErrorText ==
    /\ widget.kind = "error_text"
    /\ Frame(NoStatus, error_text(theme))

ResolveValidatedText ==
    /\ widget.kind = "validated_text"
    /\ Frame(NoStatus, validated_text(widget.class, theme))

ResolveTealButton ==
    /\ widget.kind = "teal_button"
    /\ \E status \in ButtonStatuses :
          Frame(status, teal_button(theme, status))

ResolveIndigoButton ==
    /\ widget.kind = "indigo_button"
    /\ \E status \in ButtonStatuses :
          Frame(status, indigo_button(theme, status))

ResolvePurpleButton ==
    /\ widget.kind = "purple_button"
    /\ \E status \in ButtonStatuses :
          Frame(status, purple_button(theme, status))

ResolvePinkButton ==
    /\ widget.kind = "pink_button"
    /\ \E status \in ButtonStatuses :
          Frame(status, pink_button(theme, status))

ResolveGrayButton ==
    /\ widget.kind = "gray_button"
    /\ \E status \in ButtonStatuses :
          Frame(status, gray_button(theme, status))

ResolveSizedSelectedButton ==
    /\ widget.kind = "sized_selected_button"
    /\ \E status \in ButtonStatuses :
          Frame(status, sized_selected_button(widget.class, widget.size, theme, status))

\* the application switches between the light and the dark theme
SwitchTheme ==
    /\ theme' = [theme EXCEPT !.dark = ~theme.dark]
    /\ UNCHANGED <<widget, req, style, memo>>

Next ==
    \/ ResolveButton
    \/ ResolveSelectedButton
    \/ ResolveContainer
    \/ ResolveConditionalTooltipContainer
    \/ ResolveTextInput
    \/ ResolveComboBox
    \/ ResolveSearchInput
    \/ ResolveInlineTextInput
    \/ ResolveDangerTextInput
    \/ ResolveWarningTextInput
    \/ ResolveConditionalTextInput
    \/ ResolvePickList
    \/ ResolveCheckbox
    \/ ResolveRadio
    \/ ResolveSizedButton
    \/ BuildTheme
    \/ BuildLightTheme
    \/ BuildDarkTheme
    \/ ResolveTintedButton
    \/ ResolveConditionalButtonStyle
    \/ ResolveConditionalTextInputStyle
    \/ ResolveConditionalContainerStyle
    \/ ResolveColoredText
    \/ ResolveRedText
    \/ ResolveGreenText
    \/ ResolveOrangeText
    \/ ResolveSuccessText
    \/ ResolveWarningText
    \/ ResolveErrorText
    \/ ResolveValidatedText
    \/ ResolveTealButton
    \/ ResolveIndigoButton
    \/ ResolvePurpleButton
    \/ ResolvePinkButton
    \/ ResolveGrayButton
    \/ ResolveSizedSelectedButton
    \/ SwitchTheme

Spec == Init /\ [][Next]_vars

----------------------------------------------------------------------------
(* properties *)

\* the widget is of the given kind and a frame has been painted
Painted(kind) == widget.kind = kind /\ req # NoReq

SameRGB(c1, c2) == c1.r = c2.r /\ c1.g = c2.g /\ c1.b = c2.b

\* c1's alpha is num/den of c2's alpha, the other channels equal
AlphaScaled(c1, c2, num, den) == SameRGB(c1, c2) /\ den * c1.a = num * c2.a

\* C1: a Disabled button has the Active background, text and border colours
\* with the alpha halved, the zero shadow, and the Active border width and radius
C1_DisabledButton ==
    (Painted("button") /\ req.status = "Disabled") =>
        LET active == button(widget.class, req.theme, "Active")
        IN  /\ style.background.kind = "Color"
            /\ AlphaScaled(style.background.color, active.background.color, 1, 2)
            /\ AlphaScaled(style.text_color, active.text_color, 1, 2)
            /\ AlphaScaled(style.border.color, active.border.color, 1, 2)
            /\ style.shadow = ShadowDefault
            /\ style.border.width = active.border.width
            /\ style.border.radius = active.border.radius

C1_Witness ==
    /\ Painted("button")
    /\ req.status = "Disabled"
    /\ widget.class = "Secondary"
    /\ style.border.color.a > 0
    /\ style.text_color.a > 0

\* the channel c moved by delta toward white (dark mode) or black (light mode)
Toward(c, delta, dark) == IF dark THEN Min(c + delta, Unit) ELSE Max(c - delta, 0)

ShiftedBy(c1, c2, delta, dark) ==
    /\ c1.r = Toward(c2.r, delta, dark)
    /\ c1.g = Toward(c2.g, delta, dark)
    /\ c1.b = Toward(c2.b, delta, dark)
    /\ c1.a = c2.a

\* C2: for the button variants other than Link and Plain, the Hovered background
\* is the Active background with r, g, b moved by 0.05, and the Pressed one by
\* 0.10, toward white in dark mode and toward black in light mode, clamped to
\* [0, 1], and with the alpha unchanged
C2_BackgroundShift ==
    (Painted("button") /\ widget.class \notin {"Link", "Plain"}
                       /\ req.status \in {"Hovered", "Pressed"}) =>
        LET active == button(widget.class, req.theme, "Active")
            delta == IF req.status = "Hovered" THEN 50 ELSE 100
        IN  /\ style.background.kind = "Color"
            /\ ShiftedBy(style.background.color, active.background.color,
                         delta, req.theme.dark)

\* a Pressed background in dark mode with one channel clamped at 1.0 and
\* another moved by the whole 0.10
C2_Witness ==
    /\ Painted("button")
    /\ widget.class \notin {"Link", "Plain"}
    /\ req.status = "Pressed"
    /\ req.theme.dark
    /\ LET active == button(widget.class, req.theme, "Active").background.color
           pressed == style.background.color
       IN  /\ \E ch \in {"r", "g", "b"} : active[ch] > Unit - 100 /\ pressed[ch] = Unit
           /\ \E ch \in {"r", "g", "b"} : pressed[ch] = active[ch] + 100

OtherMode(t) == [t EXCEPT !.dark = ~t.dark]

C5_SelectedIsPressed ==
    (Painted("selected_button") /\ req.status = "Active") =>
        style = button(widget.class, req.theme, "Pressed")

\* C6 as claimed: a Disabled text input, search input or danger text input has
\* half the Active background alpha and half the Active value-text alpha
C6_DisabledInputHalves ==
    (/\ widget.kind \in {"text_input", "search_input", "danger_text_input"}
     /\ req # NoReq
     /\ req.status = "Disabled") =>
        LET active == CASE widget.kind = "text_input" -> text_input_style(req.theme, "Active")
                        [] widget.kind = "search_input" -> search_input(req.theme, "Active")
                        [] widget.kind = "danger_text_input" ->
                             danger_text_input(req.theme, "Active")
        IN  /\ AlphaScaled(style.background.color, active.background.color, 1, 2)
            /\ AlphaScaled(style.value, active.value, 1, 2)

\* C6 as amended: the value-text alpha is halved in all three styles; the
\* background alpha is 0.7 times the Active one in text_input_style and
\* search_input, and the danger text input keeps its Active background
C6_DisabledInput ==
    (/\ widget.kind \in {"text_input", "search_input", "danger_text_input"}
     /\ req # NoReq
     /\ req.status = "Disabled") =>
        LET active == CASE widget.kind = "text_input" -> text_input_style(req.theme, "Active")
                        [] widget.kind = "search_input" -> search_input(req.theme, "Active")
                        [] widget.kind = "danger_text_input" ->
                             danger_text_input(req.theme, "Active")
        IN  /\ AlphaScaled(style.value, active.value, 1, 2)
            /\ IF widget.kind = "danger_text_input"
               THEN style.background = active.background
               ELSE AlphaScaled(style.background.color, active.background.color, 7, 10)

C6_Witness ==
    /\ Painted("text_input")
    /\ req.status = "Disabled"
    /\ style.background.color.a > 0
    /\ style.background.color.a < Unit
    /\ style.value.a > 0

(* the shapes of the style records *)

IsColor(c) ==
    /\ DOMAIN c = {"r", "g", "b", "a"}
    /\ \A ch \in DOMAIN c : c[ch] \in Int

IsBackground(b) == DOMAIN b = {"kind", "color"} /\ b.kind = "Color" /\ IsColor(b.color)

IsOptionalBackground(b) == b = None \/ IsBackground(b)

IsBorder(b) ==
    /\ DOMAIN b = {"radius", "width", "color"}
    /\ b.radius \in Int
    /\ b.width \in Int
    /\ IsColor(b.color)

IsShadow(sh) ==
    /\ DOMAIN sh = {"color", "offset", "blur_radius"}
    /\ IsColor(sh.color)
    /\ sh.offset \in Int \X Int
    /\ sh.blur_radius \in Int

IsButtonStyle(s) ==
    /\ DOMAIN s = {"background", "text_color", "border", "shadow", "snap"}
    /\ IsOptionalBackground(s.background)
    /\ IsColor(s.text_color)
    /\ IsBorder(s.border)
    /\ IsShadow(s.shadow)
    /\ s.snap \in BOOLEAN

IsContainerStyle(s) ==
    /\ DOMAIN s = {"text_color", "background", "border", "shadow", "snap"}
    /\ IsColor(s.text_color)
    /\ IsOptionalBackground(s.background)
    /\ IsBorder(s.border)
    /\ IsShadow(s.shadow)
    /\ s.snap \in BOOLEAN

IsTextInputStyle(s) ==
    /\ DOMAIN s = {"background", "border", "icon", "placeholder", "value", "selection"}
    /\ IsBackground(s.background)
    /\ IsBorder(s.border)
    /\ IsColor(s.icon)
    /\ IsColor(s.placeholder)
    /\ IsColor(s.value)
    /\ IsColor(s.selection)

IsPickListStyle(s) ==
    /\ DOMAIN s = {"text_color", "placeholder_color", "background", "border", "handle_color"}
    /\ IsColor(s.text_color)
    /\ IsColor(s.placeholder_color)
    /\ IsBackground(s.background)
    /\ IsBorder(s.border)
    /\ IsColor(s.handle_color)

IsCheckboxStyle(s) ==
    /\ DOMAIN s = {"background", "icon_color", "border", "text_color"}
    /\ IsBackground(s.background)
    /\ IsColor(s.icon_color)
    /\ IsBorder(s.border)
    /\ IsColor(s.text_color)

IsRadioStyle(s) ==
    /\ DOMAIN s = {"background", "dot_color", "border_width", "border_color", "text_color"}
    /\ IsBackground(s.background)
    /\ IsColor(s.dot_color)
    /\ s.border_width \in Int
    /\ IsColor(s.border_color)
    /\ IsColor(s.text_color)

IsTheme(th) ==
    /\ DOMAIN th = {"name", "palette"}
    /\ DOMAIN th.palette = {"background", "text", "primary", "success", "danger", "warning"}
    /\ \A f \in DOMAIN th.palette : IsColor(th.palette[f])

IsTextStyle(s) == DOMAIN s = {"color"} /\ IsColor(s.color)

\* C7: in either theme mode, a widget's style function yields a style record
\* of the widget's kind for every variant and status of its closed
\* enumerations, and so does every painted frame
C7_Total ==
    /\ widget.kind = "button" =>
          \A class \in ButtonClasses, status \in ButtonStatuses :
              IsButtonStyle(button_style(theme, class, status))
    /\ widget.kind = "container" =>
          \A class \in ContainerClasses :
              IsContainerStyle(container_style(theme, class))
    /\ widget.kind = "text_input" =>
          \A status \in TextInputStatuses :
              IsTextInputStyle(text_input_style(theme, status))
    /\ widget.kind = "pick_list" =>
          \A status \in PickListStatuses :
              IsPickListStyle(pick_list_style(theme, status))
    /\ widget.kind = "checkbox" =>
          \A name \in CheckboxStatuses, is_checked \in BOOLEAN :
              IsCheckboxStyle(checkbox_style(theme, [name |-> name, is_checked |-> is_checked]))
    /\ widget.kind = "radio" =>
          \A name \in RadioStatuses, is_selected \in BOOLEAN :
              IsRadioStyle(radio_style(theme, [name |-> name, is_selected |-> is_selected]))
    /\ widget.kind = "conditional_tooltip_container" =>
          \A state \in ValidationStates :
              IsContainerStyle(conditional_tooltip_container(state, theme))
    /\ widget.kind = "conditional_text_input" =>
          \A state \in ValidationStates, status \in TextInputStatuses :
              IsTextInputStyle(conditional_text_input(state, theme, status))
    /\ req # NoReq =>
          CASE widget.kind \in {"button", "selected_button", "sized_button",
                                "tinted_button", "conditional_button_style",
                                "teal_button", "indigo_button", "purple_button",
                                "pink_button", "gray_button",
                                "sized_selected_button"} ->
                 IsButtonStyle(style)
            [] widget.kind \in {"container", "conditional_tooltip_container",
                                  "conditional_container_style"} ->
                 IsContainerStyle(style)
            [] widget.kind = "pick_list" -> IsPickListStyle(style)
            [] widget.kind = "checkbox" -> IsCheckboxStyle(style)
            [] widget.kind = "radio" -> IsRadioStyle(style)
            [] widget.kind \in {"theme", "light_theme", "dark_theme"} -> IsTheme(style)
            [] widget.kind \in {"colored_text", "validated_text", "red_text", "green_text",
                                "orange_text", "success_text", "warning_text",
                                "error_text"} -> IsTextStyle(style)
            [] OTHER -> IsTextInputStyle(style)

C7_Witness ==
    /\ Painted("checkbox")
    /\ req.status = [name |-> "Disabled", is_checked |-> FALSE]
    /\ IsCheckboxStyle(style)

\* C8: for Link and Plain, Hovered is Active with the text alpha times 0.8 and
\* nothing else changed; Pressed is Active with the text alpha times 0.6 and
\* the zero shadow; the background is the Active background in both
C8_TextOnlyVariants ==
    (Painted("button") /\ widget.class \in {"Link", "Plain"}) =>
        LET active == button(widget.class, req.theme, "Active")
        IN  /\ req.status = "Hovered" =>
                  /\ AlphaScaled(style.text_color, active.text_color, 8, 10)
                  /\ [style EXCEPT !.text_color = active.text_color] = active
            /\ req.status = "Pressed" =>
                  /\ AlphaScaled(style.text_color, active.text_color, 6, 10)
                  /\ style.shadow = ShadowDefault
                  /\ [style EXCEPT !.text_color = active.text_color,
                                   !.shadow = active.shadow] = active
            /\ req.status \in {"Hovered", "Pressed"} =>
                  style.background = active.background

C8_Witness ==
    /\ Painted("button")
    /\ widget.class = "Plain"
    /\ req.status = "Hovered"
    /\ req.theme.dark
    /\ style.text_color.a > 0
    /\ style.text_color.a < button("Plain", req.theme, "Active").text_color.a
    /\ style.background = BackgroundColor(TRANSPARENT)

\* C9: Active is the variant's base style; Pressed has the zero shadow and the
\* Active border and snap flag, and for the variants other than Link and Plain
\* the Active text colour
C9_ActiveAndPressed ==
    Painted("button") =>
        LET base_style == button_base_style(req.theme, widget.class)
            active == button(widget.class, req.theme, "Active")
        IN  /\ req.status = "Active" => style = base_style
            /\ req.status = "Pressed" =>
                  /\ style.shadow = ShadowDefault
                  /\ style.border = active.border
                  /\ style.snap = active.snap
                  /\ widget.class \notin {"Link", "Plain"} =>
                        style.text_color = active.text_color

C9_Witness ==
    /\ Painted("button")
    /\ widget.class = "Primary"
    /\ req.status = "Pressed"
    /\ button("Primary", req.theme, "Active").shadow # ShadowDefault
    /\ style.shadow = ShadowDefault

\* C10: a Focused text input or inline text input and an Opened pick list have
\* the accent blue as border colour, a border wider than in Active (2.0,
\* resp. 1.5 for the pick list, against 1.0) and the Active border radius; the
\* Opened pick list also has the accent blue as handle colour
C10_FocusedAndOpened ==
    LET blue == get_theme_colors(req.theme).blue
    IN  /\ (Painted("text_input") /\ req.status = "Focused") =>
              LET active == text_input_style(req.theme, "Active")
              IN  /\ style.border.color = blue
                  /\ style.border.width = 2 * Unit
                  /\ active.border.width = Unit
                  /\ style.border.radius = active.border.radius
        /\ (Painted("inline_text_input") /\ req.status = "Focused") =>
              LET active == inline_text_input(req.theme, "Active")
              IN  /\ style.border.color = blue
                  /\ style.border.width = 2 * Unit
                  /\ active.border.width = Unit
                  /\ style.border.radius = active.border.radius
        /\ (Painted("pick_list") /\ req.status = "Opened") =>
              LET active == pick_list_style(req.theme, "Active")
              IN  /\ style.border.color = blue
                  /\ 2 * style.border.width = 3 * Unit
                  /\ active.border.width = Unit
                  /\ style.border.radius = active.border.radius
                  /\ style.handle_color = blue

C10_Witness ==
    /\ Painted("pick_list")
    /\ req.status = "Opened"
    /\ style.handle_color # pick_list_style(req.theme, "Active").handle_color
    /\ style.border.width > pick_list_style(req.theme, "Active").border.width

\* C11: sized_button(f, size) returns the style f returns with only the border
\* radius replaced, by 0.8, 1.0 or 1.2 times CORNER_RADIUS for Small, Medium, Large
C11_SizedButton ==
    Painted("sized_button") =>
        LET f == button(widget.class, req.theme, req.status)
        IN  /\ [style EXCEPT !.border.radius = f.border.radius] = f
            /\ widget.size = "Small" => 10 * style.border.radius = 8 * CORNER_RADIUS
            /\ widget.size = "Medium" => style.border.radius = CORNER_RADIUS
            /\ widget.size = "Large" => 10 * style.border.radius = 12 * CORNER_RADIUS

\* a small outlined button: the radius changes, the border width and colour stay
C11_Witness ==
    /\ Painted("sized_button")
    /\ widget.class = "Secondary"
    /\ widget.size = "Small"
    /\ req.status = "Hovered"
    /\ style.border.width = Unit
    /\ style.border.radius # button("Secondary", req.theme, "Hovered").border.radius

\* C12: conditional_tooltip_container(state) returns the danger tooltip style
\* for Error, the warning tooltip style for Warning and the card style for Valid
C12_ConditionalTooltip ==
    Painted("conditional_tooltip_container") =>
        /\ widget.class = "Error" => style = danger_tooltip_container(req.theme)
        /\ widget.class = "Warning" => style = warning_tooltip_container(req.theme)
        /\ widget.class = "Valid" => style = card_container(req.theme)

C12_Witness ==
    /\ Painted("conditional_tooltip_container")
    /\ widget.class = "Warning"
    /\ req.theme.dark
    /\ style.background = BackgroundColor(rgba(300, 150, 0, 700))
    /\ style # danger_tooltip_container(req.theme)
    /\ style # card_container(req.theme)

\* C13: conditional_text_input(state) returns, for every status, the danger
\* text input style for Error, the warning text input style for Warning and
\* the inline text input style for Valid
C13_ConditionalTextInput ==
    Painted("conditional_text_input") =>
        /\ widget.class = "Error" => style = danger_text_input(req.theme, req.status)
        /\ widget.class = "Warning" => style = warning_text_input(req.theme, req.status)
        /\ widget.class = "Valid" => style = inline_text_input(req.theme, req.status)

C13_Witness ==
    /\ Painted("conditional_text_input")
    /\ widget.class = "Valid"
    /\ req.status = "Focused"
    /\ style.background = BackgroundColor(TRANSPARENT)
    /\ style.border.width = 2 * Unit
    /\ style # text_input_style(req.theme, req.status)

\* C14: for every theme mode and status, Modern::combo_box() and
\* combo_box_style return the record Modern::text_input() returns
C14_ComboBoxIsTextInput ==
    Painted("combo_box") =>
        /\ style = text_input(req.theme, req.status)
        /\ combo_box_style(req.theme, req.status) = text_input(req.theme, req.status)

C14_Witness ==
    /\ Painted("combo_box")
    /\ req.status = "Disabled"
    /\ style = text_input(req.theme, "Disabled")
    /\ style # text_input(req.theme, "Active")
    /\ style # search_input(req.theme, "Disabled")

\* C15: Modern::theme(true) is "Modern Dark" with background (0.11, 0.11, 0.12),
\* white text and the dark accent constants, Modern::theme(false) is
\* "Modern Light" with background (0.95, 0.95, 0.97), black text and the light
\* accent constants; light_theme() and dark_theme() equal theme(false) and
\* theme(true); the two themes differ in name, background and text
C15_Theme ==
    /\ Painted("theme") =>
          /\ req.status =>
                /\ style.name = "Modern Dark"
                /\ style.palette = [background |-> from_rgb(110, 110, 120),
                                    text |-> WHITE,
                                    primary |-> MODERN_BLUE_DARK,
                                    success |-> MODERN_GREEN_DARK,
                                    danger |-> MODERN_RED_DARK,
                                    warning |-> MODERN_ORANGE_DARK]
          /\ ~req.status =>
                /\ style.name = "Modern Light"
                /\ style.palette = [background |-> from_rgb(950, 950, 970),
                                    text |-> BLACK,
                                    primary |-> MODERN_BLUE_LIGHT,
                                    success |-> MODERN_GREEN_LIGHT,
                                    danger |-> MODERN_RED_LIGHT,
                                    warning |-> MODERN_ORANGE_LIGHT]
          /\ LET other == Modern_theme(~req.status)
             IN  /\ style.name # other.name
                 /\ style.palette.background # other.palette.background
                 /\ style.palette.text # other.palette.text
    /\ Painted("light_theme") => style = Modern_theme(FALSE)
    /\ Painted("dark_theme") => style = Modern_theme(TRUE)

C15_Witness ==
    /\ Painted("theme")
    /\ req.status = FALSE
    /\ style.name = "Modern Light"
    /\ style.palette.text = BLACK

\* the palette accent colour of a tinted button variant
AccentOf(t, color_variant) ==
    LET colors == get_theme_colors(t)
    IN  CASE color_variant = "Blue" -> colors.blue
          [] color_variant = "Green" -> colors.green
          [] color_variant = "Red" -> colors.red
          [] color_variant = "Orange" -> colors.orange
          [] color_variant = "Purple" -> colors.purple
          [] color_variant = "Teal" -> colors.teal
          [] color_variant = "Pink" -> colors.pink
          [] color_variant = "Indigo" -> colors.indigo

\* C16: an Active tinted button has the variant's accent colour with alpha 0.2
\* as background, the accent colour as text and a shadow of alpha 0.05;
\* Hovered and Pressed keep the background alpha 0.2; Disabled has background
\* alpha 0.1, half the text alpha and the zero shadow
C16_TintedButton ==
    Painted("tinted_button") =>
        LET accent == AccentOf(req.theme, widget.class)
        IN  /\ style.background.kind = "Color"
            /\ req.status = "Active" =>
                  /\ SameRGB(style.background.color, accent)
                  /\ 10 * style.background.color.a = 2 * Unit
                  /\ style.text_color = accent
                  /\ 100 * style.shadow.color.a = 5 * Unit
            /\ req.status \in {"Hovered", "Pressed"} =>
                  10 * style.background.color.a = 2 * Unit
            /\ req.status = "Disabled" =>
                  /\ 10 * style.background.color.a = Unit
                  /\ AlphaScaled(style.text_color, accent, 1, 2)
                  /\ style.shadow = ShadowDefault

C16_Witness ==
    /\ Painted("tinted_button")
    /\ widget.class = "Red"
    /\ req.status = "Disabled"
    /\ style.background.color.a = 100
    /\ style.text_color.a > 0

\* C17: each conditional helper returns the result of true_style when its
\* condition is true and of false_style when it is false, whatever the other
\* style function is
C17_ConditionalHelpers ==
    /\ Painted("conditional_button_style") =>
          LET chosen == IF widget.condition THEN widget.true_style ELSE widget.false_style
          IN  /\ style = button(chosen, req.theme, req.status)
              /\ \A g \in ButtonStyleArgs :
                    /\ conditional_button_style(TRUE, chosen, g, req.theme, req.status) = style
                    /\ conditional_button_style(FALSE, g, chosen, req.theme, req.status) = style
    /\ Painted("conditional_text_input_style") =>
          LET chosen == IF widget.condition THEN widget.true_style ELSE widget.false_style
          IN  /\ style = CallTextInputStyle(chosen, req.theme, req.status)
              /\ \A g \in TextInputStyleArgs :
                    /\ conditional_text_input_style(TRUE, chosen, g, req.theme, req.status)
                          = style
                    /\ conditional_text_input_style(FALSE, g, chosen, req.theme, req.status)
                          = style
    /\ Painted("conditional_container_style") =>
          LET chosen == IF widget.condition THEN widget.true_style ELSE widget.false_style
          IN  /\ style = container(chosen, req.theme)
              /\ \A g \in ContainerStyleArgs :
                    /\ conditional_container_style(TRUE, chosen, g, req.theme) = style
                    /\ conditional_container_style(FALSE, g, chosen, req.theme) = style

\* the condition is false and the two style functions give different records
C17_Witness ==
    /\ Painted("conditional_button_style")
    /\ ~widget.condition
    /\ widget.true_style = "Primary"
    /\ widget.false_style = "Link"
    /\ style = button("Link", req.theme, req.status)
    /\ style # button("Primary", req.theme, req.status)

\* C18: colored_text(light_color, dark_color) returns dark_color in the dark
\* theme and light_color in the light theme; validated_text(true) is the system
\* red of the mode and equals error_text and red_text, validated_text(false)
\* is the system green of the mode and equals success_text and green_text, and
\* warning_text equals orange_text
C18_ColoredText ==
    /\ Painted("colored_text") =>
          style.color = IF req.theme.dark THEN widget.dark_color ELSE widget.light_color
    /\ Painted("validated_text") =>
          IF widget.class
          THEN /\ style.color = IF req.theme.dark THEN RED_DARK ELSE RED
               /\ style = error_text(req.theme)
               /\ style = red_text(req.theme)
          ELSE /\ style.color = IF req.theme.dark THEN GREEN_DARK ELSE GREEN
               /\ style = success_text(req.theme)
               /\ style = green_text(req.theme)
    /\ Painted("error_text") => style = red_text(req.theme)
    /\ Painted("success_text") => style = green_text(req.theme)
    /\ Painted("warning_text") => style = orange_text(req.theme)

C18_Witness ==
    /\ Painted("colored_text")
    /\ req.theme.dark
    /\ widget.light_color = BLACK
    /\ widget.dark_color = WHITE
    /\ style.color = WHITE

\* C19: a checked Disabled checkbox has half the background, icon and text
\* alpha of the checked Active one; a checked checkbox has border width 0 and
\* a white icon, an unchecked one a fully transparent background and icon and
\* border width 2; the border radius is always TINY_CORNER_RADIUS
C19_Checkbox ==
    Painted("checkbox") =>
        LET active == checkbox_style(req.theme, [name |-> "Active", is_checked |-> TRUE])
        IN  /\ (req.status.name = "Disabled" /\ req.status.is_checked) =>
                  /\ AlphaScaled(style.background.color, active.background.color, 1, 2)
                  /\ AlphaScaled(style.icon_color, active.icon_color, 1, 2)
                  /\ AlphaScaled(style.text_color, active.text_color, 1, 2)
            /\ req.status.is_checked =>
                  /\ style.border.width = 0
                  /\ SameRGB(style.icon_color, WHITE)
            /\ ~req.status.is_checked =>
                  /\ style.background = BackgroundColor(TRANSPARENT)
                  /\ style.icon_color = TRANSPARENT
                  /\ style.border.width = 2 * Unit
            /\ style.border.radius = TINY_CORNER_RADIUS

C19_Witness ==
    /\ Painted("checkbox")
    /\ req.status = [name |-> "Disabled", is_checked |-> TRUE]
    /\ style.icon_color.a = 500
    /\ style.background.color.a > 0
    /\ style.text_color.a > 0

\* C20: in status Active the Warning button has black text in dark mode and
\* white text in light mode; Primary, Success and Danger have white text;
\* System has the palette text colour; Secondary has a transparent background,
\* a border of width 1.0 in the accent blue, accent-blue text and no shadow
C20_BaseTable ==
    (Painted("button") /\ req.status = "Active") =>
        LET colors == get_theme_colors(req.theme)
        IN  /\ widget.class = "Warning" =>
                  style.text_color = IF req.theme.dark THEN BLACK ELSE WHITE
            /\ widget.class \in {"Primary", "Success", "Danger"} =>
                  style.text_color = WHITE
            /\ widget.class = "System" => style.text_color = colors.text
            /\ widget.class = "Secondary" =>
                  /\ style.background = BackgroundColor(TRANSPARENT)
                  /\ style.border.width = Unit
                  /\ style.border.color = colors.blue
                  /\ style.text_color = colors.blue
                  /\ style.shadow = ShadowDefault

C20_Witness ==
    /\ Painted("button")
    /\ req.status = "Active"
    /\ widget.class = "Warning"
    /\ req.theme.dark
    /\ style.text_color = BLACK

(* the channel range of the button transforms *)

ColorButtonKinds ==
    {"teal_button", "indigo_button", "purple_button", "pink_button", "gray_button"}

TransformedButtonKinds ==
    {"button", "selected_button", "sized_button", "tinted_button",
     "sized_selected_button"} \cup ColorButtonKinds

\* the style function the widget w was built with, applied to (t, status)
ButtonStyleOf(w, t, status) ==
    CASE w.kind = "button" -> button(w.class, t, status)
      [] w.kind = "selected_button" -> selected_button_style(w.class, t, status)
      [] w.kind = "sized_button" -> sized_button(w.class, w.size, t, status)
      [] w.kind = "sized_selected_button" ->
           sized_selected_button(w.class, w.size, t, status)
      [] w.kind = "tinted_button" -> tinted_button(w.class, t, status)
      [] w.kind = "teal_button" -> teal_button(t, status)
      [] w.kind = "indigo_button" -> indigo_button(t, status)
      [] w.kind = "purple_button" -> purple_button(t, status)
      [] w.kind = "pink_button" -> pink_button(t, status)
      [] w.kind = "gray_button" -> gray_button(t, status)

\* the background the status transforms start from: the Active background of
\* the innermost style function (selected_button_style paints Active with the
\* pressed transform of it)
BaseBackgroundOf(w, t) ==
    IF w.kind \in {"selected_button", "sized_selected_button"}
    THEN button(w.class, t, "Active").background
    ELSE ButtonStyleOf(w, t, "Active").background

InUnitRange(c) == \A ch \in {"r", "g", "b", "a"} : c[ch] \in 0..Unit

Dist(x, y) == IF x > y THEN x - y ELSE y - x

====
